---- MODULE Spec2Model ----
(***************************************************************************)
(* A model of phrack_cli.py: the command-line front end (main), the        *)
(* download loop (download_issues), and the three read-only commands       *)
(* (list_issues, search_issues, view_issue) over the issues directory.     *)
(*                                                                         *)
(* Strings are TLC strings (Len, \o and SubSeq work on them); file         *)
(* contents are sequences of byte values, as the files are written in      *)
(* binary mode and read back through a UTF-8 decoder that ignores errors.  *)
(***************************************************************************)
EXTENDS Integers, Sequences, FiniteSets, TLC

VARIABLES
    fs,      \* ISSUES_DIR: entries [name, data] in os.listdir order
    fs0,     \* ISSUES_DIR as it was when the program was first started
    links,   \* the href values of the anchors of the remote index page
    pc,      \* "idle": no process runs; "loop": inside download_issues;
             \* "exit": main has returned, the output is complete
    i,       \* position of the for-loop of download_issues in links
    args,    \* the parsed arguments of the current / last invocation
    out,     \* what the current / last invocation printed, one print per entry
    net,     \* the requests.get calls of the current / last download_issues
    log,     \* the logging calls of the current / last download_issues
    prev     \* net and log of the download_issues call before that one

vars == <<fs, fs0, links, pc, i, args, out, net, log, prev>>

----------------------------------------------------------------------------
(* Bounds of the model *)

\* longest list of anchors on the index page
MaxLinks == 2

\* --view takes the ordinals -MaxOrdinal .. MaxOrdinal
MaxOrdinal == 4

----------------------------------------------------------------------------
(* Program constants and string helpers *)

BASE_URL == "http://www.phrack.org/archives/tgz/"

\* str.endswith
EndsWith(s, suffix) ==
    /\ Len(s) >= Len(suffix)
    /\ SubSeq(s, Len(s) - Len(suffix) + 1, Len(s)) = suffix

\* s.split("/")[-1]: what follows the last "/" (all of s when there is none)
LastSegment(s) ==
    LET slashes == {k \in 1..Len(s) : SubSeq(s, k, k) = "/"}
    IN  IF slashes = {} THEN s
        ELSE LET last == CHOOSE k \in slashes : \A m \in slashes : m <= k
             IN  SubSeq(s, last + 1, Len(s))

UpperCase == "ABCDEFGHIJKLMNOPQRSTUVWXYZ"
LowerCase == "abcdefghijklmnopqrstuvwxyz"

LowerChar(c) ==
    LET at == {k \in 1..Len(UpperCase) : SubSeq(UpperCase, k, k) = c}
    IN  IF at = {} THEN c
        ELSE LET k == CHOOSE k \in at : TRUE IN SubSeq(LowerCase, k, k)

RECURSIVE LowerFrom(_, _)
LowerFrom(s, k) ==
    IF k > Len(s) THEN "" ELSE LowerChar(SubSeq(s, k, k)) \o LowerFrom(s, k + 1)

\* Lower, leaving the text as it is
LowerNot(s) == s

\* str.lower (ASCII letters)
Lower(s) == LowerFrom(s, 1)

\* needle in hay
Contains(hay, needle) ==
    \E k \in 0..(Len(hay) - Len(needle)) :
        SubSeq(hay, k + 1, k + Len(needle)) = needle

\* the printable ASCII characters of codes 32..95 and 97..126 (code 96, the
\* backquote, cannot be written in a string of this language; no file of
\* the model holds it)
Printable32 ==
    " !\"#$%&'()*+,-./0123456789:;<=>?@ABCDEFGHIJKLMNOPQRSTUVWXYZ[\\]^_"
Printable97 == "abcdefghijklmnopqrstuvwxyz{|}~"

\* the text of one byte: itself when it is ASCII, nothing when it is invalid
Chr(b) ==
    IF b >= 32 /\ b <= 95 THEN SubSeq(Printable32, b - 31, b - 31)
    ELSE IF b >= 97 /\ b <= 126 THEN SubSeq(Printable97, b - 96, b - 96)
    ELSE ""

RECURSIVE DecodeFrom(_, _)
DecodeFrom(bytes, k) ==
    IF k > Len(bytes) THEN "" ELSE Chr(bytes[k]) \o DecodeFrom(bytes, k + 1)

\* open(path, "r", encoding="utf-8", errors="ignore").read(): a byte that is
\* no valid UTF-8 (in the model: byte 255) is dropped
Decode(bytes) == DecodeFrom(bytes, 1)

Digits == "0123456789"

RECURSIVE NatStr(_)
NatStr(n) ==
    IF n < 10 THEN SubSeq(Digits, n + 1, n + 1)
    ELSE NatStr(n \div 10) \o SubSeq(Digits, (n % 10) + 1, (n % 10) + 1)

\* the decimal text an f-string gives an int
IntStr(n) == IF n < 0 THEN "-" \o NatStr(0 - n) ELSE NatStr(n)

----------------------------------------------------------------------------
(* The issues directory *)

Names(d) == {d[k].name : k \in 1..Len(d)}

\* Exists, looking among the listed issues only
ExistsAsIssue(d, name) == \E k \in 1..Len(d) : d[k].name = name /\ EndsWith(name, ".txt")

\* Exists, with the test turned round
ExistsInverted(d, name) == ~(\E k \in 1..Len(d) : d[k].name = name)

\* os.path.exists(os.path.join(ISSUES_DIR, name))
Exists(d, name) == \E k \in 1..Len(d) : d[k].name = name

\* the bytes of the file called name
Data(d, name) == d[CHOOSE k \in 1..Len(d) : d[k].name = name].data

\* the directories a new entry can produce: the entry takes some place in the
\* enumeration order, the entries already there keep their relative order
InsertAt(d, p, e) == SubSeq(d, 1, p) \o <<e>> \o SubSeq(d, p + 1, Len(d))

\* open(path, "wb").write(data): truncates the file when it exists, creates
\* it otherwise
Written(d, name, data) ==
    IF name \in Names(d)
    THEN {[k \in 1..Len(d) |-> IF d[k].name = name THEN [name |-> name, data |-> data] ELSE d[k]]}
    ELSE {InsertAt(d, p, [name |-> name, data |-> data]) : p \in 0..Len(d)}

\* IsIssue, as a test for ".t" anywhere in the name
IsIssueLoose(name) == Contains(name, ".t")

\* f.endswith(".txt")
IsIssue(name) == EndsWith(name, ".txt")

RECURSIVE SelectNames(_, _)
SelectNames(d, k) ==
    IF k > Len(d) THEN <<>>
    ELSE (IF IsIssue(d[k].name) THEN <<d[k].name>> ELSE <<>>) \o SelectNames(d, k + 1)

\* [f for f in os.listdir(ISSUES_DIR) if f.endswith(".txt")]
Catalog(d) == SelectNames(d, 1)

----------------------------------------------------------------------------
(* The inputs: the remote site, the directory at start, the command line *)

\* the href values an index page of the model can hold
Hrefs == {"a.tar.gz", "old/a.tar.gz", "b.tar.gz", "b.tar.gz.md5"}

\* the status codes the remote answers with
Statuses == {200, 404}

\* issue_response.content: the bytes the remote serves under url
Body(url) == <<31, 139, Len(url)>>

FileA == [name |-> "a.tar.gz", data |-> <<31, 139, 0>>]
\* "PHRACK"
FileP == [name |-> "p.txt", data |-> <<80, 72, 82, 65, 67, 75>>]
\* "ph", an invalid byte, "rack 7"
FileQ == [name |-> "q.txt", data |-> <<112, 104, 255, 114, 97, 99, 107, 32, 55>>]

\* the directories the program is started on
InitialDirs == { <<>>, <<FileP>>, <<FileQ, FileA, FileP>> }

Keywords == {"", "phrack", "PHRACK", "Ack", "zine"}

Ordinals == (0 - MaxOrdinal)..MaxOrdinal

Absent(v) == [given |-> FALSE, value |-> v]
Given(v) == [given |-> TRUE, value |-> v]

NoArgs == [download |-> FALSE, list |-> FALSE, search |-> Absent(""), view |-> Absent(0)]

\* the command lines of the model: every single option, and the pairs that
\* show the order in which main looks at them
CommandLines ==
    {NoArgs, [NoArgs EXCEPT !.download = TRUE], [NoArgs EXCEPT !.list = TRUE]}
    \cup {[NoArgs EXCEPT !.search = Given(kw)] : kw \in Keywords}
    \cup {[NoArgs EXCEPT !.view = Given(n)] : n \in Ordinals}
    \cup {[NoArgs EXCEPT !.download = TRUE, !.list = TRUE],
          [NoArgs EXCEPT !.list = TRUE, !.search = Given("phrack")],
          [NoArgs EXCEPT !.search = Given("phrack"), !.view = Given(1)]}

\* the truth value Python gives an optional str / int argument
Truthy(opt, empty) == opt.given /\ opt.value # empty

\* any(vars(args).values())
AnyArg(a) == a.download \/ a.list \/ Truthy(a.search, "") \/ Truthy(a.view, 0)

----------------------------------------------------------------------------
(* download_issues *)

IssueUrl(href) == BASE_URL \o href

\* IsArchive, as a test for "tar.gz" anywhere in the URL
IsArchiveAnywhere(url) == Contains(url, "tar.gz")

\* issue_url.endswith("tar.gz")
IsArchive(url) == EndsWith(url, "tar.gz")

\* IssueFilename, taking the first piece of the split
IssueFilenameFirst(href) ==
    LET slashes == {k \in 1..Len(href) : SubSeq(href, k, k) = "/"}
    IN  IF slashes = {} THEN href
        ELSE SubSeq(href, 1, (CHOOSE k \in slashes : \A m \in slashes : k <= m) - 1)

\* link["href"].split("/")[-1], the name under ISSUES_DIR
IssueFilename(href) == LastSegment(href)

\* Succeeded, with the status never looked at
SucceededAlways(status) == status = status

\* response.status_code != 200 is the failure of a request
Succeeded(status) == status = 200

Request(url, status) == [url |-> url, status |-> status]

Skipping(name) == [level |-> "info", event |-> "Skipping", target |-> name]
Saved(name) == [level |-> "info", event |-> "Saved", target |-> name]
Failed(url) == [level |-> "error", event |-> "Failed to download", target |-> url]

\* the request for the issue list; the loop starts only when it succeeds
DownloadBegin(a) ==
    \E status \in Statuses :
        /\ prev' = [net |-> net, log |-> log]
        /\ net' = <<Request(BASE_URL, status)>>
        /\ log' = <<>>
        /\ args' = a
        /\ IF Succeeded(status)
           THEN pc' = "loop" /\ i' = 1 /\ out' = <<>>
           ELSE pc' = "exit" /\ i' = 0 /\ out' = <<"Failed to fetch Phrack issue list.">>
        /\ UNCHANGED <<fs, fs0, links>>

\* a link that is no archive: continue
LoopIgnore ==
    /\ pc = "loop" /\ i <= Len(links)
    /\ ~IsArchive(IssueUrl(links[i]))
    /\ i' = i + 1
    /\ UNCHANGED <<fs, fs0, links, pc, args, out, net, log, prev>>

\* the file is there already: log and continue
LoopSkip ==
    /\ pc = "loop" /\ i <= Len(links)
    /\ IsArchive(IssueUrl(links[i]))
    /\ Exists(fs, IssueFilename(links[i]))
    /\ log' = Append(log, Skipping(IssueFilename(links[i])))
    /\ i' = i + 1
    /\ UNCHANGED <<fs, fs0, links, pc, args, out, net, prev>>

\* FetchFailed, leaving the loop
FetchFailedEndsLoop(url) ==
    /\ log' = Append(log, Failed(url))
    /\ i' = Len(links) + 1
    /\ UNCHANGED <<fs, pc>>

\* what a failed fetch leaves: the error is logged, the loop goes on
FetchFailed(url) ==
    /\ log' = Append(log, Failed(url))
    /\ i' = i + 1
    /\ UNCHANGED <<fs, pc>>

\* what a successful fetch leaves: the body is written, the loop goes on
FetchSaved(url, name) ==
    /\ fs' \in Written(fs, name, Body(url))
    /\ log' = Append(log, Saved(name))
    /\ i' = i + 1
    /\ UNCHANGED pc

\* the file is absent: fetch it, write it when the fetch succeeds
LoopFetch ==
    /\ pc = "loop" /\ i <= Len(links)
    /\ IsArchive(IssueUrl(links[i]))
    /\ ~Exists(fs, IssueFilename(links[i]))
    /\ \E status \in Statuses :
        /\ net' = Append(net, Request(IssueUrl(links[i]), status))
        /\ IF Succeeded(status)
           THEN FetchSaved(IssueUrl(links[i]), IssueFilename(links[i]))
           ELSE FetchFailed(IssueUrl(links[i]))
    /\ UNCHANGED <<fs0, links, args, out, prev>>

\* the list is exhausted: download_issues returns
LoopEnd ==
    /\ pc = "loop" /\ i > Len(links)
    /\ pc' = "exit"
    /\ UNCHANGED <<fs, fs0, links, i, args, out, net, log, prev>>

----------------------------------------------------------------------------
(* list_issues, search_issues, view_issue *)

NoIssues == "No issues found. Please download them first."

RECURSIVE Numbered(_, _)
Numbered(issues, k) ==
    IF k > Len(issues) THEN <<>>
    ELSE <<IntStr(k) \o ". " \o issues[k]>> \o Numbered(issues, k + 1)

\* what list_issues prints
list_issues(d) ==
    LET issues == Catalog(d)
    IN  IF issues = <<>> THEN <<NoIssues>>
        ELSE <<"\nAvailable Phrack Issues:">> \o Numbered(issues, 1)

\* keyword.lower() in f.read().lower()
Matches(d, issue, keyword) == Contains(Lower(Decode(Data(d, issue))), Lower(keyword))

RECURSIVE FoundFrom(_, _, _, _)
FoundFrom(d, issues, keyword, k) ==
    IF k > Len(issues) THEN <<>>
    ELSE (IF Matches(d, issues[k], keyword) THEN <<issues[k]>> ELSE <<>>)
         \o FoundFrom(d, issues, keyword, k + 1)

\* found_issues of search_issues, in the order of the catalog
found_issues(d, keyword) == FoundFrom(d, Catalog(d), keyword, 1)

\* what search_issues prints
search_issues(d, keyword) ==
    LET found == found_issues(d, keyword)
    IN  IF Catalog(d) = <<>> THEN <<NoIssues>>
        ELSE IF found # <<>>
        THEN <<"\nFound keyword '" \o keyword \o "' in the following issues:">> \o found
        ELSE <<"No results found for '" \o keyword \o "'.">>

\* what view_issue prints
view_issue(d, name) ==
    IF Exists(d, name) THEN <<Decode(Data(d, name))>>
    ELSE <<"Error: " \o name \o " not found.">>

\* issue_list[index] of Python, as a position 1..Len(issue_list); 0 stands for
\* IndexError. A negative index counts from the end of the list.
PyIndex(issue_list, index) ==
    IF index >= 0
    THEN (IF index < Len(issue_list) THEN index + 1 ELSE 0)
    ELSE (IF 0 - index <= Len(issue_list) THEN Len(issue_list) + index + 1 ELSE 0)

\* the --view branch of main
view_by_number(d, n) ==
    LET issue_list == Catalog(d)
        at == PyIndex(issue_list, n - 1)
    IN  IF at = 0 THEN <<"Invalid issue number " \o IntStr(n) \o ".">>
        ELSE view_issue(d, issue_list[at])

----------------------------------------------------------------------------
(* main *)

Usage == "usage: phrack_cli.py [-h] [-d] [-l] [-s SEARCH] [-v VIEW]"

\* argParse found no option that counts: the help is printed, main returns 1
MainHelp(a) ==
    /\ ~AnyArg(a)
    /\ args' = a
    /\ out' = <<Usage>>
    /\ pc' = "exit"
    /\ UNCHANGED <<fs, fs0, links, i, net, log, prev>>

MainDownload(a) == AnyArg(a) /\ a.download /\ DownloadBegin(a)

\* the branches of main that only read the directory
MainRead(a) ==
    /\ AnyArg(a) /\ ~a.download
    /\ args' = a
    /\ out' = IF a.list THEN list_issues(fs)
              ELSE IF Truthy(a.search, "") THEN search_issues(fs, a.search.value)
              ELSE IF Truthy(a.view, 0) THEN view_by_number(fs, a.view.value)
              ELSE <<"No action specified. Use --help for available options.">>
    /\ pc' = "exit"
    /\ UNCHANGED <<fs, fs0, links, i, net, log, prev>>

\* one run of the program on some command line
Main ==
    /\ pc = "idle"
    /\ \E a \in CommandLines : MainHelp(a) \/ MainDownload(a) \/ MainRead(a)

\* the process ends; what it left is the directory (and, for the record, the
\* requests and log lines of the last two download_issues calls)
Exit ==
    /\ pc = "exit"
    /\ pc' = "idle" /\ i' = 0 /\ args' = NoArgs /\ out' = <<>>
    /\ UNCHANGED <<fs, fs0, links, net, log, prev>>

----------------------------------------------------------------------------
(* The specification *)

RECURSIVE SeqsUpTo(_, _)
SeqsUpTo(S, n) ==
    IF n = 0 THEN {<<>>}
    ELSE LET shorter == SeqsUpTo(S, n - 1)
         IN  shorter \cup {Append(q, x) : q \in shorter, x \in S}

Init ==
    /\ fs \in InitialDirs
    /\ fs0 = fs
    /\ links \in SeqsUpTo(Hrefs, MaxLinks)
    /\ pc = "idle"
    /\ i = 0
    /\ args = NoArgs
    /\ out = <<>>
    /\ net = <<>>
    /\ log = <<>>
    /\ prev = [net |-> <<>>, log |-> <<>>]

Next == Main \/ LoopIgnore \/ LoopSkip \/ LoopFetch \/ LoopEnd \/ Exit

Spec == Init /\ [][Next]_vars

----------------------------------------------------------------------------
(* What the properties below speak of *)

\* a download_issues call has returned
Returned == pc # "loop" /\ net # <<>>

\* the name has the archive suffix
HasSuffix(name) == Len(name) >= 6 /\ SubSeq(name, Len(name) - 5, Len(name)) = "tar.gz"

\* the places of the candidate list held by candidates with the archive suffix
Candidates == {k \in 1..Len(links) : HasSuffix(links[k])}

\* the file name of the candidate at place k: what follows its last "/"
NameOf(k) == LastSegment(links[k])

\* the URL asked for the candidate at place k
UrlOf(k) == "http://www.phrack.org/archives/tgz/" \o links[k]

\* the requests of a call for candidates (the first one asks for the list)
Fetches(n) == {r \in 2..Len(n) : TRUE}

\* how many files of the directory carry the name
Count(d, name) == Cardinality({k \in 1..Len(d) : d[k].name = name})

RECURSIVE SkipAll(_)
SkipAll(k) ==
    IF k > Len(links) THEN <<>>
    ELSE (IF HasSuffix(links[k])
          THEN <<[level |-> "info", event |-> "Skipping", target |-> NameOf(k)]>>
          ELSE <<>>) \o SkipAll(k + 1)

\* the call before the last one went through without any failure
PrevClean ==
    /\ prev.net # <<>> /\ prev.net[1].status = 200
    /\ \A r \in Fetches(prev.net) : prev.net[r].status = 200

----------------------------------------------------------------------------
(* C1 *)

\* C1 as stated: the second of two download_issues calls in a row on the same
\* candidate list (both having got the list) makes no candidate fetch and
\* skips every candidate with the archive suffix.
C1_SecondRunFetchesNothing ==
    (Returned /\ prev.net # <<>> /\ prev.net[1].status = 200 /\ net[1].status = 200) =>
        (Fetches(net) = {} /\ log = SkipAll(1))

\* C1 amended: in a download_issues call that follows another one on the same
\* candidate list, no candidate is fetched whose file the call before saved or
\* skipped; and when the call before got the list and all its fetches
\* succeeded, the second call makes no candidate fetch at all and skips
\* every candidate with the archive suffix.
C1_Idempotent ==
    /\ \A r \in Fetches(net) : \A k \in Candidates :
           net[r].url = UrlOf(k) =>
               ~(\E j \in 1..Len(prev.log) :
                     /\ prev.log[j].event \in {"Saved", "Skipping"}
                     /\ prev.log[j].target = NameOf(k))
    /\ (Returned /\ PrevClean /\ net[1].status = 200) =>
           (Fetches(net) = {} /\ log = SkipAll(1))

\* a second call, after a first one that saved a file, has skipped it
C1_Witness ==
    /\ pc = "exit" /\ args.download /\ PrevClean /\ net[1].status = 200
    /\ \E j \in 1..Len(prev.log) : prev.log[j].event = "Saved"
    /\ log # <<>> /\ Fetches(net) = {}

----------------------------------------------------------------------------
(* C2 *)

\* C2: when download_issues has returned after getting the list, the only
\* candidates with the archive suffix whose file is not in the directory are
\* those whose own fetch failed, and every fetch that succeeded has left its
\* body in the directory under the candidate's file name: a failed fetch
\* stops no other candidate, before it or after it.
C2_PartialFailureIsolation ==
    (Returned /\ net[1].status = 200) =>
        /\ \A k \in Candidates :
               \/ Count(fs, NameOf(k)) = 1
               \/ \E r \in Fetches(net) : net[r].url = UrlOf(k) /\ net[r].status # 200
        /\ \A r \in Fetches(net) :
               net[r].status = 200 =>
                   \E k \in Candidates :
                       /\ net[r].url = UrlOf(k)
                       /\ \E e \in 1..Len(fs) :
                              fs[e] = [name |-> NameOf(k), data |-> Body(net[r].url)]

\* a call in which a fetch failed and a later fetch succeeded
C2_Witness ==
    /\ pc = "exit" /\ args.download
    /\ \E r1, r2 \in Fetches(net) :
           r1 < r2 /\ net[r1].status # 200 /\ net[r2].status = 200

----------------------------------------------------------------------------
(* C3 *)

\* the command line that holds --view n and nothing else
ViewOnly(n) ==
    [download |-> FALSE, list |-> FALSE,
     search |-> [given |-> FALSE, value |-> ""], view |-> [given |-> TRUE, value |-> n]]

\* C3: --view n prints "Invalid issue number n." and no document when n < 1
\* or n > count, and the text of the n-th entry of the catalog when
\* 1 <= n <= count.
C3_OutOfRangeView ==
    \A n \in Ordinals :
        (pc = "exit" /\ args = ViewOnly(n)) =>
            IF n < 1 \/ n > Len(Catalog(fs))
            THEN out = <<"Invalid issue number " \o IntStr(n) \o ".">>
            ELSE out = <<Decode(Data(fs, Catalog(fs)[n]))>>

----------------------------------------------------------------------------
(* C4 *)

\* the candidate file names are pairwise distinct
DistinctNames == \A k, m \in Candidates : NameOf(k) = NameOf(m) => k = m

\* C4 as stated: candidate file names being pairwise distinct, after one or
\* more download_issues calls (the last of which got the list) the directory
\* holds exactly one file for each candidate file name with the archive
\* suffix.
C4_OneFilePerCandidate ==
    (Returned /\ net[1].status = 200 /\ DistinctNames) =>
        \A k \in Candidates : Count(fs, NameOf(k)) = 1

\* a step that logs "Saved"
Saves == log' # log /\ log' # <<>> /\ log'[Len(log')].event = "Saved"

\* C4 amended: whether the candidate file names are distinct or not, after
\* any number of download_issues calls the directory holds at most one file
\* for each candidate file name with the archive suffix, and exactly one for
\* each that a call saved or skipped; whenever the directory changes, one
\* file was saved, under the file name of the candidate being processed, and
\* that name was not in the directory before.
C4_NoDuplicateWrites ==
    /\ [](/\ \A k \in Candidates : Count(fs, NameOf(k)) <= 1
          /\ \A j \in 1..Len(log) :
                 log[j].event \in {"Saved", "Skipping"} => Count(fs, log[j].target) = 1)
    /\ [][/\ fs' # fs => Saves
          /\ Saves =>
                 /\ pc = "loop" /\ i \in Candidates
                 /\ log'[Len(log')].target = NameOf(i)
                 /\ Count(fs, NameOf(i)) = 0
                 /\ Count(fs', NameOf(i)) = 1
                 /\ Len(fs') = Len(fs) + 1]_vars

\* a second call has saved a file that the first one failed to fetch, next to
\* a file the first one saved
C4_Witness ==
    /\ pc = "exit" /\ args.download
    /\ \E j \in 1..Len(prev.log) : prev.log[j].event = "Saved"
    /\ \E j \in 1..Len(prev.log) : prev.log[j].event = "Failed to download"
    /\ \E j \in 1..Len(log) : log[j].event = "Saved"
    /\ \E j \in 1..Len(log) : log[j].event = "Skipping"

----------------------------------------------------------------------------
(* C5 *)

\* C5: a candidate whose file name lacks the archive suffix is never asked
\* of the remote, never written and never logged: every request after the
\* first one is for a URL with the suffix, every log record is about a name
\* or URL with the suffix, the loop has logged one record for each candidate
\* with the suffix that it has passed and none for the others, and every
\* file that was not in the directory at the start has the suffix.
C5_FilterCorrect ==
    /\ \A r \in Fetches(net) :
           /\ HasSuffix(net[r].url)
           /\ \E k \in Candidates : net[r].url = UrlOf(k)
    /\ \A j \in 1..Len(log) : HasSuffix(log[j].target)
    /\ pc = "loop" => Len(log) = Cardinality({k \in Candidates : k < i})
    /\ (Returned /\ net[1].status = 200) => Len(log) = Cardinality(Candidates)
    /\ \A k \in 1..Len(fs) :
           HasSuffix(fs[k].name) \/ \E m \in 1..Len(fs0) : fs0[m] = fs[k]

\* the loop has passed a candidate without the suffix and then fetched one
\* with it
C5_Witness ==
    /\ pc = "exit" /\ args.download
    /\ \E k \in 1..Len(links) : ~HasSuffix(links[k]) /\ \E m \in Candidates : k < m
    /\ \E j \in 1..Len(log) : log[j].event = "Saved"

----------------------------------------------------------------------------
(* C6 *)

\* C6: a step of the loop asks the remote only for the candidate it is
\* processing and only when that candidate's file is not in the directory;
\* on a candidate whose file is in the directory the step asks nothing,
\* writes nothing and moves on to the next candidate.
C6_SkipMeansNoNetwork ==
    [][/\ (pc = "loop" /\ net' # net) =>
              /\ i \in Candidates
              /\ net' = Append(net, [url |-> UrlOf(i), status |-> net'[Len(net')].status])
              /\ Count(fs, NameOf(i)) = 0
       /\ (pc = "loop" /\ i \in Candidates /\ Count(fs, NameOf(i)) > 0) =>
              /\ net' = net /\ fs' = fs
              /\ pc' = "loop" /\ i' = i + 1]_vars

\* the loop has skipped a file that was in the directory from the start, and
\* gone on to fetch another candidate
C6_Witness ==
    /\ pc = "exit" /\ args.download
    /\ \E j \in 1..Len(log) :
           /\ log[j].event = "Skipping"
           /\ \E m \in 1..Len(fs0) : fs0[m].name = log[j].target
           /\ \E n \in 1..Len(log) : j < n /\ log[n].event = "Saved"

----------------------------------------------------------------------------
(* C7 *)

\* two characters that are the same up to the case of a letter
SameLetter(c1, c2) ==
    \/ c1 = c2
    \/ \E k \in 1..26 :
           LET up == SubSeq("ABCDEFGHIJKLMNOPQRSTUVWXYZ", k, k)
               lo == SubSeq("abcdefghijklmnopqrstuvwxyz", k, k)
           IN  (c1 = up /\ c2 = lo) \/ (c1 = lo /\ c2 = up)

\* keyword occurs in text when the case of letters is not looked at
OccursFolded(text, keyword) ==
    \E off \in 0..(Len(text) - Len(keyword)) :
        \A j \in 1..Len(keyword) :
            SameLetter(SubSeq(text, off + j, off + j), SubSeq(keyword, j, j))

\* the .txt files of the directory whose text holds the keyword
Matching(keyword) ==
    {fs[k].name : k \in {m \in 1..Len(fs) :
        /\ Len(fs[m].name) >= 4
        /\ SubSeq(fs[m].name, Len(fs[m].name) - 3, Len(fs[m].name)) = ".txt"
        /\ OccursFolded(Decode(fs[m].data), keyword)}}

\* the file names a run of --search printed under its heading
Reported(keyword) ==
    IF out # <<>> /\ out[1] = "\nFound keyword '" \o keyword \o "' in the following issues:"
    THEN {out[j] : j \in 2..Len(out)}
    ELSE {}

\* the command line that holds --search keyword and nothing else
SearchOnly(keyword) ==
    [download |-> FALSE, list |-> FALSE,
     search |-> [given |-> TRUE, value |-> keyword], view |-> [given |-> FALSE, value |-> 0]]

----------------------------------------------------------------------------
(* C8 *)

\* C8: when the request for the issue list does not succeed, download_issues
\* returns at once: it has made that one request, has examined and logged no
\* candidate, and the directory is as it was.
C8_ListingFailureAborts ==
    [][(pc = "idle" /\ args'.download /\ net' # <<>> /\ net'[1].status # 200) =>
           /\ pc' = "exit"
           /\ fs' = fs
           /\ Len(net') = 1
           /\ log' = <<>>
           /\ out' = <<"Failed to fetch Phrack issue list.">>]_vars

\* the list was refused while a candidate of the page was missing from a
\* directory that holds files
C8_Witness ==
    /\ pc = "exit" /\ args.download
    /\ Len(net) = 1 /\ net[1].status # 200
    /\ fs # <<>>
    /\ \E k \in Candidates : Count(fs, NameOf(k)) = 0

----------------------------------------------------------------------------
(* C9 *)

\* C9: no step of the program removes or changes a file of the directory:
\* every entry is there after the step with the same bytes, and the entries
\* keep their order; a step outside download_issues leaves the directory as
\* it is; a step of download_issues adds at most one file.
C9_EntriesNeverMutated ==
    [][/\ \A k \in 1..Len(fs) : \E m \in 1..Len(fs') : fs'[m] = fs[k]
       /\ \A k, m \in 1..Len(fs) :
              k < m => \E a, b \in 1..Len(fs') : a < b /\ fs'[a] = fs[k] /\ fs'[b] = fs[m]
       /\ Len(fs') <= Len(fs) + 1
       /\ (pc # "loop") => fs' = fs]_vars

\* a download has added a file to a directory that held a.tar.gz with other
\* bytes than the remote serves, and the a.tar.gz of the start is still there
C9_Witness ==
    /\ pc = "exit" /\ args.download
    /\ Len(fs) > Len(fs0)
    /\ \E k \in 1..Len(fs0) : fs0[k] = [name |-> "a.tar.gz", data |-> <<31, 139, 0>>]
    /\ \E k \in 1..Len(fs) : fs[k] = [name |-> "a.tar.gz", data |-> <<31, 139, 0>>]
    /\ \E k \in Candidates : NameOf(k) = "a.tar.gz"

----------------------------------------------------------------------------
(* C10 *)

\* the command line that holds --list and nothing else
ListOnly ==
    [download |-> FALSE, list |-> TRUE,
     search |-> [given |-> FALSE, value |-> ""], view |-> [given |-> FALSE, value |-> 0]]

====
